---- MODULE Spec2Model ----
(***************************************************************************)
(* Event-planner backend: the request handlers of the event, invitation,   *)
(* attendance and task endpoints over the relational store.                *)
(*                                                                         *)
(* Strings are tuples of one-character strings, so that TrimSpace, ToLower *)
(* and Title are computed character by character as the Go library does.   *)
(* The store is three tables of rows with auto-increment primary keys.     *)
(* Every store call of a handler may answer with an error: the parameter   *)
(* fault of an action names the store call of that request that fails      *)
(* (0: none does). A handler is an operator from the request and the store *)
(* to its answer (the response and the tables it leaves); the action of    *)
(* the handler applies it.                                                 *)
(***************************************************************************)
EXTENDS Integers, Sequences, FiniteSets, TLC

\* ------------------------------------------------------------------ bounds
NUsers == 3
MaxEvents == 2
MaxAttendeeRows == 2
MaxTasks == 2
MaxDay == 2

\* ------------------------------------------------------------------ strings
LowerLetters ==
  <<"a","b","c","d","e","f","g","h","i","j","k","l","m",
    "n","o","p","q","r","s","t","u","v","w","x","y","z">>

UpperLetters ==
  <<"A","B","C","D","E","F","G","H","I","J","K","L","M",
    "N","O","P","Q","R","S","T","U","V","W","X","Y","Z">>

Digits == <<"0","1","2","3","4","5","6","7","8","9">>

\* unicode.IsSpace on the ASCII range
SpaceChars == {" ", "\t", "\n", "\r", "\f"}

IsLower(ch) == \E i \in DOMAIN LowerLetters : LowerLetters[i] = ch
IsUpper(ch) == \E i \in DOMAIN UpperLetters : UpperLetters[i] = ch
IsDigit(ch) == \E i \in DOMAIN Digits : Digits[i] = ch

ToLowerRune(ch) ==
  IF IsUpper(ch)
  THEN LowerLetters[CHOOSE i \in DOMAIN UpperLetters : UpperLetters[i] = ch]
  ELSE ch

ToTitleRune(ch) ==
  IF IsLower(ch)
  THEN UpperLetters[CHOOSE i \in DOMAIN LowerLetters : LowerLetters[i] = ch]
  ELSE ch

\* strings.ToLower
ToLower(s) == [i \in DOMAIN s |-> ToLowerRune(s[i])]

\* strings.TrimSpace: drops leading and trailing white space
RECURSIVE TrimLeft(_)
TrimLeft(s) ==
  IF s # <<>> /\ Head(s) \in SpaceChars THEN TrimLeft(Tail(s)) ELSE s

RECURSIVE TrimRight(_)
TrimRight(s) ==
  IF s # <<>> /\ s[Len(s)] \in SpaceChars
  THEN TrimRight(SubSeq(s, 1, Len(s) - 1))
  ELSE s

TrimSpace(s) == TrimRight(TrimLeft(s))

\* strings.isSeparator: letters, digits and underscore are not separators;
\* every other ASCII character is
isSeparator(ch) == ~(IsLower(ch) \/ IsUpper(ch) \/ IsDigit(ch) \/ ch = "_")

\* variant: only the first letter of the string is mapped to title case
TitleFirstLetter(s) ==
  [i \in DOMAIN s |-> IF i = 1 THEN ToTitleRune(s[i]) ELSE s[i]]

\* strings.Title: the letter that follows a separator (or starts the string)
\* is mapped to title case, every other character is kept
Title(s) ==
  [i \in DOMAIN s |->
     IF isSeparator(IF i = 1 THEN " " ELSE s[i - 1])
     THEN ToTitleRune(s[i])
     ELSE s[i]]

\* the string literals of the handlers
Empty == <<>>
Going == <<"G","o","i","n","g">>
Maybe == <<"M","a","y","b","e">>
NotGoing == <<"N","o","t"," ","G","o","i","n","g">>
RoleAttendee == <<"a","t","t","e","n","d","e","e">>
RoleOrganizer == <<"o","r","g","a","n","i","z","e","r">>

\* ------------------------------------------------------------------ inputs
\* the User table: no handler of this model writes it
Users == 1 .. NUsers

\* getUserIDFromContext found no user_id in the request context
NoUser == 0

Callers == Users \cup {NoUser}

\* the :id path parameter
EventIDs == 1 .. MaxEvents

\* InviteRequest.UserID: the users and one id of no user
InviteeIDs == 1 .. (NUsers + 1)

\* InviteRequest.Role
RoleInputs ==
  { RoleAttendee,
    <<"O","r","g","a","n","i","z","e","r">>,
    <<"a","d","m","i","n">> }

\* AttendanceRequest.Status
StatusInputs ==
  { <<"g","o","i","n","g">>,
    <<"G","O","I","N","G">>,
    <<" "," ","G","o","i","n","g"," "," ">>,
    <<"n","o","t"," ","g","o","i","n","g">>,
    <<"m","a","y","b","e">>,
    <<"N","O","T"," ","G","O","I","N","G","\n">>,
    <<"n","o","t"," "," ","g","o","i","n","g">>,
    <<"n","o","t","g","o","i","n","g">>,
    <<"n","o","t","_","g","o","i","n","g">>,
    <<"g","o","i","n","g","!">>,
    <<" ">>,
    <<"y","e","s">> }

\* the statuses sent where the status is one input among others
StatusSample ==
  { <<" "," ","G","o","i","n","g"," "," ">>,
    <<"n","o","t"," ","g","o","i","n","g">>,
    <<"n","o","t","g","o","i","n","g">> }

\* the role inputs InviteUser accepts
ValidRoleInputs == {RoleAttendee, <<"O","r","g","a","n","i","z","e","r">>}

\* ------------------------------------------------------------------ dates
\* a time.Time is the number of seconds since 00:00:00 of day 0 (UTC)
Hour == 60 * 60
Day == 24 * Hour

\* the times of day of the date strings
TimesOfDay == {0, 12 * Hour, Day - 1}

\* a date string is told by the layout it is written in and the day and time
\* of day it names; "" is the empty string, "other" a string of no layout
DateString(layout, day, sec) == [layout |-> layout, day |-> day, sec |-> sec]
NoDate == DateString("", 0, 0)
BadDate == DateString("other", 0, 0)

DateInputs ==
  {NoDate, BadDate}
    \cup {DateString("2006-01-02", d, 0) : d \in 0 .. MaxDay}
    \cup {DateString("RFC3339", d, t) : d \in 0 .. MaxDay, t \in TimesOfDay}

\* time.Parse(layout, value): a string of another layout is an error; a
\* string of layout "2006-01-02" parses to 00:00:00 of its day
Parse(layout, value) ==
  IF value.layout = layout
  THEN [err |-> FALSE, t |-> value.day * Day + value.sec]
  ELSE [err |-> TRUE, t |-> 0]

\* the handlers' date parsing: RFC3339 first, then "2006-01-02"
ParseDate(value) ==
  IF ~Parse("RFC3339", value).err
  THEN Parse("RFC3339", value)
  ELSE Parse("2006-01-02", value)

\* the values time.Now() takes
ClockValues == {0, 12 * Hour, Day}

\* ------------------------------------------------------------------ bodies
Gala == <<"G","a","l","a">>
TeaParty == <<"T","e","a"," ","p","a","r","t","y">>
BookTea == <<" ","b","o","o","k"," ","T","E","A"," ">>
Chairs == <<"c","h","a","i","r","s">>

\* CreateEventRequest (Location is stored and never read)
EventBody(title, description, date) ==
  [Title |-> title, Description |-> description, Date |-> date]

EventBodies ==
  {EventBody(Gala, Empty, d) : d \in DateInputs}
    \cup {EventBody(Chairs, TeaParty, d) : d \in DateInputs}
    \cup {EventBody(Empty, Gala, DateString("RFC3339", 1, 0))}

\* the bodies sent where the body is one input among others: one that binds
\* and names a time to come, and one without a title
EventBodySample ==
  { EventBody(Gala, Empty, DateString("RFC3339", 1, 12 * Hour)),
    EventBody(Empty, Gala, DateString("RFC3339", 1, 12 * Hour)) }

\* CreateTaskRequest
TaskBody(title, description) == [Title |-> title, Description |-> description]

TaskBodies == {TaskBody(BookTea, Empty), TaskBody(Chairs, Gala), TaskBody(Empty, Chairs)}

TaskBodySample == {TaskBody(Chairs, Empty), TaskBody(Empty, Chairs)}

\* ------------------------------------------------------------------ state
VARIABLES
  events,          \* Event rows
  tasks,           \* Task rows
  attendees,       \* EventAttendee rows
  nextEventID,     \* the auto-increment keys of the three tables
  nextTaskID,
  nextAttendeeID,
  inflight,        \* requests between two of their store calls
  completed,       \* the events whose CreateEvent was answered with no store error
  now              \* time.Now()

vars ==
  <<events, tasks, attendees, nextEventID, nextTaskID, nextAttendeeID, inflight,
    completed, now>>

Init ==
  /\ events = {}
  /\ tasks = {}
  /\ attendees = {}
  /\ nextEventID = 1
  /\ nextTaskID = 1
  /\ nextAttendeeID = 1
  /\ inflight = {}
  /\ completed = {}
  /\ now = 0

\* the clock moves on between requests
Tick(t) ==
  /\ t > now
  /\ now' = t
  /\ UNCHANGED <<events, tasks, attendees, nextEventID, nextTaskID, nextAttendeeID,
                 inflight, completed>>

\* ------------------------------------------------------------------ store
\* DB.First(&ev, id)
EventsByID(id) == {e \in events : e.ID = id}

\* DB.Where("event_id = ? AND user_id = ?", e, u)
AttendeesOf(e, u) == {a \in attendees : a.EventID = e /\ a.UserID = u}

\* DB.Where("event_id = ? AND user_id = ? AND role = ?", e, u, role)
AttendeesWithRole(e, u, role) == {a \in AttendeesOf(e, u) : a.Role = role}

\* First: the matching row of least primary key
FirstRow(rows) == CHOOSE a \in rows : \A b \in rows : a.ID <= b.ID

\* the answer of a handler: the response, the store call that failed (0
\* when none did) and the tables the request leaves
Answer(resp, body, hit, evs, tks, atts) ==
  [resp |-> resp, body |-> body, hit |-> hit,
   events |-> evs, tasks |-> tks, attendees |-> atts]

\* jsonError: an error response, nothing written
Error(resp, hit) == Answer(resp, "error", hit, events, tasks, attendees)

\* the tables of an answer become the store; a fault that names a store call
\* the request never reaches is no request of its own
Commit(ans, fault) ==
  /\ ans.hit = fault
  /\ events' = ans.events
  /\ tasks' = ans.tasks
  /\ attendees' = ans.attendees
  /\ nextEventID' = IF ans.events \subseteq events THEN nextEventID ELSE nextEventID + 1
  /\ nextTaskID' = IF ans.tasks \subseteq tasks THEN nextTaskID ELSE nextTaskID + 1
  /\ nextAttendeeID' =
       IF \E a \in ans.attendees : a.ID = nextAttendeeID
       THEN nextAttendeeID + 1 ELSE nextAttendeeID
  /\ nextEventID' <= MaxEvents + 1
  /\ nextTaskID' <= MaxTasks + 1
  /\ nextAttendeeID' <= MaxAttendeeRows + 1
  /\ UNCHANGED now

\* ------------------------------------------------------------------ events
\* the Event row CreateEvent inserts
NewEvent(caller, body, eventDate) ==
  [ID |-> nextEventID, Title |-> TrimSpace(body.Title),
   Description |-> body.Description, Date |-> eventDate, OrganizerID |-> caller]

\* ShouldBindJSON of a CreateEventRequest: title and date are required
BindsEvent(body) == body.Title # Empty /\ body.Date # NoDate

\* variant: a date equal to now is accepted
DateAtOrAfter(eventDate, t) == eventDate >= t

\* eventDate.After(now)
DateAfter(eventDate, t) == eventDate > t

\* FirstOrCreate of CreateEvent: the row of (event, organizer) of least key
\* if there is one, else a new row with Role "organizer" and no Status; an
\* error of the call is dropped by the handler
FirstOrCreateOrganizer(atts, eventID, userID, failed) ==
  IF failed \/ \E a \in atts : a.EventID = eventID /\ a.UserID = userID
  THEN atts
  ELSE atts \cup
         {[ID |-> nextAttendeeID, EventID |-> eventID, UserID |-> userID,
           Role |-> RoleOrganizer, Status |-> Empty]}

\* CreateEvent. Store calls: 1 Create, 2 FirstOrCreate
CreateEventAnswer(caller, body, fault) ==
  IF caller = NoUser THEN Error("Unauthorized", 0)
  ELSE IF ~BindsEvent(body) THEN Error("ValidationError", 0)
  ELSE IF ParseDate(body.Date).err THEN Error("ValidationError", 0)
  ELSE IF ~DateAfter(ParseDate(body.Date).t, now) THEN Error("ValidationError", 0)
  ELSE IF fault = 1 THEN Error("InternalError", 1)
  ELSE Answer("Created", "event", IF fault = 2 THEN 2 ELSE 0,
              events \cup {NewEvent(caller, body, ParseDate(body.Date).t)},
              tasks,
              FirstOrCreateOrganizer(attendees, nextEventID, caller, fault = 2))

CreateEvent(caller, body, fault) ==
  LET ans == CreateEventAnswer(caller, body, fault) IN
    /\ Commit(ans, fault)
    /\ completed' = IF ans.resp = "Created" /\ ans.hit = 0
                    THEN completed \cup {nextEventID} ELSE completed
    /\ UNCHANGED inflight

\* CreateEvent up to its response to a failed Create, or to the Event row
\* inserted: the request is then in flight, other requests may be served
\* before its FirstOrCreate
CreateEventInsert(caller, body, fault) ==
  LET ans == CreateEventAnswer(caller, body, fault) IN
    /\ fault \in {0, 1}
    /\ Commit([ans EXCEPT !.attendees = attendees], fault)
    /\ inflight' = IF ans.resp = "Created"
                   THEN inflight \cup {[caller |-> caller, event |-> nextEventID]}
                   ELSE inflight
    /\ UNCHANGED completed

\* the FirstOrCreate of a CreateEvent in flight, and its response
CreateEventAttend(req, failed) ==
  /\ req \in inflight
  /\ attendees' = FirstOrCreateOrganizer(attendees, req.event, req.caller, failed)
  /\ nextAttendeeID' =
       IF attendees' # attendees THEN nextAttendeeID + 1 ELSE nextAttendeeID
  /\ nextAttendeeID' <= MaxAttendeeRows + 1
  /\ inflight' = inflight \ {req}
  /\ completed' = IF failed THEN completed ELSE completed \cup {req.event}
  /\ UNCHANGED <<events, tasks, nextEventID, nextTaskID, now>>

\* the three deletes of DeleteEvent's transaction, up to the one that fails
\* (2 attendees, 3 tasks, 4 event; any other value: none fails)
DeleteCascade(id, failAt) ==
  [attendees |-> IF failAt = 2 THEN attendees
                 ELSE {a \in attendees : a.EventID # id},
   tasks     |-> IF failAt \in {2, 3} THEN tasks
                 ELSE {t \in tasks : t.EventID # id},
   events    |-> IF failAt \in {2, 3, 4} THEN events
                 ELSE {e \in events : e.ID # id}]

\* variant: the deletes run on the connection itself: what ran before the
\* failing one stays
TransactionNoRollback(id, failAt) == DeleteCascade(id, failAt)

\* DB.Transaction: the callback's writes are committed when it returns nil
\* and rolled back when it returns an error
Transaction(id, failAt) ==
  IF failAt \in {2, 3, 4}
  THEN [attendees |-> attendees, tasks |-> tasks, events |-> events]
  ELSE DeleteCascade(id, failAt)

\* variant: an "organizer" row of the caller is accepted as well
DeleteAllowedForDelegates(ev, userID) ==
  ev.OrganizerID = userID \/ AttendeesWithRole(ev.ID, userID, RoleOrganizer) # {}

\* "only organizer can delete the event"
DeleteAllowed(ev, userID) == ev.OrganizerID = userID

\* variant: the transaction runs before the ownership is looked at
DeleteEventAnswerCheckedLast(caller, id, fault) ==
  IF caller = NoUser THEN Error("Unauthorized", 0)
  ELSE IF fault = 1 THEN Error("InternalError", 1)
  ELSE IF EventsByID(id) = {} THEN Error("NotFound", 0)
  ELSE LET ev == FirstRow(EventsByID(id))
           tx == Transaction(ev.ID, fault) IN
    IF fault \in {2, 3, 4} THEN
      Answer("InternalError", "error", fault, tx.events, tx.tasks, tx.attendees)
    ELSE Answer(IF DeleteAllowed(ev, caller) THEN "OK" ELSE "Forbidden",
                "event deleted", 0, tx.events, tx.tasks, tx.attendees)

\* DeleteEvent. Store calls: 1 First(event), 2-4 the transaction's deletes
DeleteEventAnswer(caller, id, fault) ==
  IF caller = NoUser THEN Error("Unauthorized", 0)
  ELSE IF fault = 1 THEN Error("InternalError", 1)
  ELSE IF EventsByID(id) = {} THEN Error("NotFound", 0)
  ELSE LET ev == FirstRow(EventsByID(id))
           tx == Transaction(ev.ID, fault) IN
    IF ~DeleteAllowed(ev, caller) THEN Error("Forbidden", 0)
    ELSE IF fault \in {2, 3, 4} THEN
      Answer("InternalError", "error", fault, tx.events, tx.tasks, tx.attendees)
    ELSE Answer("OK", "event deleted", 0, tx.events, tx.tasks, tx.attendees)

DeleteEvent(caller, id, fault) ==
  /\ Commit(DeleteEventAnswer(caller, id, fault), fault)
  /\ UNCHANGED <<inflight, completed>>

\* ------------------------------------------------------------------ invitations
\* strings.ToLower(body.Role)
LowerRole == [r \in RoleInputs |-> ToLower(r)]

\* variant: the lookup of the caller's row leaves out the role
InviterHasAnyRow(ev, userID, lookupFailed) ==
  \/ ev.OrganizerID = userID
  \/ (~lookupFailed /\ AttendeesOf(ev.ID, userID) # {})

\* the permission check of InviteUser: the caller owns the event, or the
\* lookup of an "organizer" row of the caller answers with a row (an error
\* of that lookup counts as no row)
InviterIsOrganizer(ev, userID, lookupFailed) ==
  \/ ev.OrganizerID = userID
  \/ (~lookupFailed /\ AttendeesWithRole(ev.ID, userID, RoleOrganizer) # {})

\* variant: the lookup is for an "attendee" row only
AlreadyInvitedAsAttendee(eventID, inviteeID, lookupFailed) ==
  ~lookupFailed /\ AttendeesWithRole(eventID, inviteeID, RoleAttendee) # {}

\* "check if already invited": err == nil, the lookup answered with a row
AlreadyInvited(eventID, inviteeID, lookupFailed) ==
  ~lookupFailed /\ AttendeesOf(eventID, inviteeID) # {}

\* InviteUser. Store calls: 1 First(event), 2 the inviter's organizer row,
\* 3 First(invitee), 4 the invitee's row, 5 Create
InviteUserAnswer(caller, eventID, inviteeID, rawRole, fault) ==
  LET role == LowerRole[rawRole] IN
  IF caller = NoUser THEN Error("Unauthorized", 0)
  ELSE IF role # RoleAttendee /\ role # RoleOrganizer THEN Error("ValidationError", 0)
  ELSE IF fault = 1 THEN Error("NotFound", 1)
  ELSE IF EventsByID(eventID) = {} THEN Error("NotFound", 0)
  ELSE LET ev == FirstRow(EventsByID(eventID)) IN
    IF ev.OrganizerID # caller /\ fault = 2 THEN Error("Forbidden", 2)
    ELSE IF ~InviterIsOrganizer(ev, caller, fault = 2) THEN Error("Forbidden", 0)
    ELSE IF fault = 3 THEN Error("NotFound", 3)
    ELSE IF inviteeID \notin Users THEN Error("NotFound", 0)
    ELSE IF AlreadyInvited(eventID, inviteeID, fault = 4)
    THEN Answer("OK", "already a participant", 0, events, tasks, attendees)
    ELSE IF fault = 5 THEN Error("InternalError", 5)
    ELSE Answer("OK", "invited", IF fault = 4 THEN 4 ELSE 0, events, tasks,
                attendees \cup
                  {[ID |-> nextAttendeeID, EventID |-> eventID, UserID |-> inviteeID,
                    Role |-> role, Status |-> Empty]})

InviteUser(caller, eventID, inviteeID, rawRole, fault) ==
  /\ Commit(InviteUserAnswer(caller, eventID, inviteeID, rawRole, fault), fault)
  /\ UNCHANGED <<inflight, completed>>

\* ------------------------------------------------------------------ attendance
\* the status as SetAttendance normalizes it
Normalize(raw) == Title(ToLower(TrimSpace(raw)))

Normalized == [raw \in StatusInputs |-> Normalize(raw)]

\* variant: every normalized status is stored
ValidStatusOfAny(normalized) == TRUE

ValidStatus(normalized) ==
  normalized = Going \/ normalized = Maybe \/ normalized = NotGoing

\* variant: the row is inserted under a new key instead of updated
SaveAsNewRow(att) == attendees \cup {[att EXCEPT !.ID = nextAttendeeID]}

\* variant: the update is by event, not by primary key
SaveForEvent(att) ==
  {IF a.EventID = att.EventID THEN [a EXCEPT !.Status = att.Status] ELSE a :
     a \in attendees}

\* DB.Save(&att): the row of att's primary key takes att's fields
Save(att) == {a \in attendees : a.ID # att.ID} \cup {att}

\* SetAttendance. Store calls: 1 First(event), 2 the caller's row,
\* 3 Create or Save
SetAttendanceAnswer(caller, eventID, rawStatus, fault) ==
  LET normalized == Normalized[rawStatus] IN
  IF caller = NoUser THEN Error("Unauthorized", 0)
  ELSE IF ~ValidStatus(normalized) THEN Error("ValidationError", 0)
  ELSE IF fault = 1 THEN Error("InternalError", 1)
  ELSE IF EventsByID(eventID) = {} THEN Error("NotFound", 0)
  ELSE IF fault \in {2, 3} THEN Error("InternalError", fault)
  ELSE IF AttendeesOf(eventID, caller) = {}
  THEN Answer("OK", "attendance", 0, events, tasks,
              attendees \cup
                {[ID |-> nextAttendeeID, EventID |-> eventID, UserID |-> caller,
                  Role |-> RoleAttendee, Status |-> normalized]})
  ELSE Answer("OK", "attendance", 0, events, tasks,
              Save([FirstRow(AttendeesOf(eventID, caller)) EXCEPT !.Status = normalized]))

SetAttendance(caller, eventID, rawStatus, fault) ==
  /\ Commit(SetAttendanceAnswer(caller, eventID, rawStatus, fault), fault)
  /\ UNCHANGED <<inflight, completed>>

\* "only organizer can view attendees"
ViewAllowed(ev, userID) == ev.OrganizerID = userID

\* GetEventAttendees. Store calls: 1 First(event), 2 Find
GetEventAttendeesAnswer(caller, eventID, fault) ==
  IF caller = NoUser THEN Error("Unauthorized", 0)
  ELSE IF fault = 1 THEN Error("InternalError", 1)
  ELSE IF EventsByID(eventID) = {} THEN Error("NotFound", 0)
  ELSE IF ~ViewAllowed(FirstRow(EventsByID(eventID)), caller) THEN Error("Forbidden", 0)
  ELSE IF fault = 2 THEN Error("InternalError", 2)
  ELSE Answer("OK", "attendees", 0, events, tasks, attendees)

GetEventAttendees(caller, eventID, fault) ==
  /\ Commit(GetEventAttendeesAnswer(caller, eventID, fault), fault)
  /\ UNCHANGED <<inflight, completed>>

\* ------------------------------------------------------------------ tasks
\* variant: an "organizer" row of the caller is accepted as well
TaskAllowedForDelegates(ev, userID) ==
  ev.OrganizerID = userID \/ AttendeesWithRole(ev.ID, userID, RoleOrganizer) # {}

\* "only organizer can create tasks"
TaskAllowed(ev, userID) == ev.OrganizerID = userID

\* ShouldBindJSON of a CreateTaskRequest: the title is required
BindsTask(body) == body.Title # Empty

\* the Task row CreateTask inserts
NewTask(eventID, body) ==
  [ID |-> nextTaskID, EventID |-> eventID, Title |-> TrimSpace(body.Title),
   Description |-> body.Description]

\* CreateTask. Store calls: 1 First(event), 2 Create
CreateTaskAnswer(caller, eventID, body, fault) ==
  IF caller = NoUser THEN Error("Unauthorized", 0)
  ELSE IF fault = 1 THEN Error("InternalError", 1)
  ELSE IF EventsByID(eventID) = {} THEN Error("NotFound", 0)
  ELSE IF ~TaskAllowed(FirstRow(EventsByID(eventID)), caller) THEN Error("Forbidden", 0)
  ELSE IF ~BindsTask(body) THEN Error("ValidationError", 0)
  ELSE IF fault = 2 THEN Error("InternalError", 2)
  ELSE Answer("Created", "task", 0, events,
              tasks \cup {NewTask(eventID, body)}, attendees)

CreateTask(caller, eventID, body, fault) ==
  /\ Commit(CreateTaskAnswer(caller, eventID, body, fault), fault)
  /\ UNCHANGED <<inflight, completed>>

\* ------------------------------------------------------------------ lists
\* variant: the rows come in the order of their primary keys alone
KeyOrder(a, b) ==
  \/ a.ID < b.ID
  \/ (a.ID = b.ID /\ a.Join <= b.Join)

\* before(a, b): row a comes before row b in a result ordered by date. Rows
\* of equal date come in the order of their primary keys, the order the
\* store holds them in
DateOrder(a, b) ==
  \/ a.Date < b.Date
  \/ (a.Date = b.Date /\ a.ID < b.ID)
  \/ (a.Date = b.Date /\ a.ID = b.ID /\ a.Join <= b.Join)

\* Order("date asc").Find: the rows as a sequence
RECURSIVE OrderByDate(_)
OrderByDate(rows) ==
  IF rows = {} THEN <<>>
  ELSE LET first == CHOOSE r \in rows : \A q \in rows : DateOrder(r, q)
       IN <<first>> \o OrderByDate(rows \ {first})

\* a row of the events table as a query yields it; Join is the key of the
\* event_attendees row it is joined with (0 in a query without join)
EventRow(e, join) == [Date |-> e.Date, ID |-> e.ID, Join |-> join, event |-> e]

\* DB.Where("user_id = ? AND role IN ?", userID, {"attendee", "organizer"})
Attendances(userID) ==
  {a \in attendees : a.UserID = userID /\ a.Role \in {RoleAttendee, RoleOrganizer}}

\* GetInvitedEvents: the events of the caller's rows of either role, by date
GetInvitedEventsResults(caller) ==
  LET ids == {a.EventID : a \in Attendances(caller)}
      found == OrderByDate({EventRow(e, 0) : e \in {x \in events : x.ID \in ids}})
  IN [i \in DOMAIN found |-> found[i].event]

\* GetInvitedEvents. Store calls: 1 Find(attendances), 2 Find(events)
GetInvitedEventsAnswer(caller, fault) ==
  IF caller = NoUser THEN Error("Unauthorized", 0)
  ELSE IF fault = 1 THEN Error("InternalError", 1)
  ELSE IF Attendances(caller) = {}
  THEN Answer("OK", "events", 0, events, tasks, attendees)
  ELSE IF fault = 2 THEN Error("InternalError", 2)
  ELSE Answer("OK", "events", 0, events, tasks, attendees)

GetInvitedEvents(caller, fault) ==
  /\ Commit(GetInvitedEventsAnswer(caller, fault), fault)
  /\ UNCHANGED <<inflight, completed>>

\* ------------------------------------------------------------------ search
\* SearchRequest
SearchRequest(keyword, startDate, endDate, role, type) ==
  [Keyword |-> keyword, StartDate |-> startDate, EndDate |-> endDate,
   Role |-> role, Type |-> type]

\* the keywords sent (none holds a pattern character of ILIKE)
KeywordInputs ==
  { Empty,
    <<" ","g","A","L","a"," ">>,
    <<"t","e","a">>,
    <<"z","z">> }

\* SearchRequest.Role
SearchRoleInputs ==
  { Empty, RoleOrganizer, RoleAttendee,
    <<"A","t","t","e","n","d","e","e">>,
    <<"a","d","m","i","n">> }

\* SearchRequest.Type
TypeInputs == {"", "event", "task", "both", "tasks"}

\* s holds sub as a substring
Contains(s, sub) ==
  \E i \in 0 .. (Len(s) - Len(sub)) : SubSeq(s, i + 1, i + Len(sub)) = sub

\* field ILIKE '%' + keyword + '%'
ILike(field, keyword) == Contains(ToLower(field), ToLower(keyword))

\* a time.Time that was never set (IsZero)
ZeroTime == [zero |-> TRUE, t |-> 0]

TimeOf(t) == [zero |-> FALSE, t |-> t]

\* 23*time.Hour + 59*time.Minute + 59*time.Second
EndOfDay == 23 * Hour + 59 * 60 + 59

\* end = end.Add(23h59m59s)
ExtendEnd(t) == TimeOf(t + EndOfDay)

\* start and end as the handler leaves them; err: a date did not parse
SearchBounds(req) ==
  LET startParsed == ParseDate(req.StartDate)
      endParsed == ParseDate(req.EndDate)
  IN IF req.StartDate # NoDate /\ startParsed.err THEN [err |-> TRUE]
     ELSE IF req.EndDate # NoDate /\ endParsed.err THEN [err |-> TRUE]
     ELSE [err |-> FALSE,
           start |-> IF req.StartDate = NoDate THEN ZeroTime ELSE TimeOf(startParsed.t),
           end |-> IF req.EndDate = NoDate THEN ZeroTime ELSE ExtendEnd(endParsed.t)]

\* the date conditions of a query on the event e
InBounds(e, bounds) ==
  /\ (bounds.start.zero \/ e.Date >= bounds.start.t)
  /\ (bounds.end.zero \/ e.Date <= bounds.end.t)

\* the role of a request is one the handler knows
KnownRole(role) == role = Empty \/ role = RoleOrganizer \/ role = RoleAttendee

\* variant: the join takes the caller's rows of either role
RoleJoinAnyRole(e, role, userID) ==
  IF role = RoleOrganizer THEN (IF e.OrganizerID = userID THEN {0} ELSE {})
  ELSE IF role = RoleAttendee
  THEN {a.ID : a \in {x \in attendees : x.EventID = e.ID /\ x.UserID = userID}}
  ELSE {0}

\* variant: without a role the query is on the events the caller owns or
\* holds a row of
RoleJoinOwnEvents(e, role, userID) ==
  IF role = RoleOrganizer THEN (IF e.OrganizerID = userID THEN {0} ELSE {})
  ELSE IF role = RoleAttendee
  THEN {a.ID : a \in {x \in attendees : x.EventID = e.ID /\ x.UserID = userID
                                        /\ x.Role = RoleAttendee}}
  ELSE IF e.OrganizerID = userID \/ \E x \in attendees : x.EventID = e.ID /\ x.UserID = userID
  THEN {0}
  ELSE {}

\* the keys of the event_attendees rows the role condition joins the event
\* e with: {0} stands for the one row of a query without join
RoleJoin(e, role, userID) ==
  IF role = RoleOrganizer THEN (IF e.OrganizerID = userID THEN {0} ELSE {})
  ELSE IF role = RoleAttendee
  THEN {a.ID : a \in {x \in attendees : x.EventID = e.ID /\ x.UserID = userID
                                        /\ x.Role = RoleAttendee}}
  ELSE {0}

\* title ILIKE kw OR description ILIKE kw; no condition for an empty keyword
KeywordMatches(row, keyword) ==
  keyword = Empty \/ ILike(row.Title, keyword) \/ ILike(row.Description, keyword)

\* the rows of the event query
EventRows(keyword, bounds, role, userID) ==
  UNION { {EventRow(e, j) : j \in RoleJoin(e, role, userID)} :
            e \in {x \in events : KeywordMatches(x, keyword) /\ InBounds(x, bounds)} }

\* a row of the tasks table joined with its event
TaskRow(t, e, join) ==
  [Date |-> e.Date, ID |-> t.ID, Join |-> join, task |-> t, event |-> e]

\* the rows of the task query: the keyword is looked for in the task and in
\* its event, the dates and the role are those of the event
TaskRows(keyword, bounds, role, userID) ==
  UNION { {TaskRow(p[1], p[2], j) : j \in RoleJoin(p[2], role, userID)} :
            p \in {q \in tasks \X events :
                     /\ q[2].ID = q[1].EventID
                     /\ (KeywordMatches(q[1], keyword) \/ KeywordMatches(q[2], keyword))
                     /\ InBounds(q[2], bounds)} }

\* results = append(results, gin.H{"type": "event", "event": e})
EventEntries(rows) ==
  LET found == OrderByDate(rows) IN
    [i \in DOMAIN found |-> [type |-> "event", event |-> found[i].event]]

\* the loop over the tasks found: the parent event of each is fetched, and
\* the task is left out when that fetch fails (dropFirst: it fails for the
\* first task)
TaskEntries(rows, dropFirst) ==
  LET found == OrderByDate(rows)
      kept == IF dropFirst /\ found # <<>> THEN Tail(found) ELSE found
  IN [i \in DOMAIN kept |->
        [type |-> "task", task |-> kept[i].task,
         event |-> FirstRow(EventsByID(kept[i].task.EventID))]]

\* the role is validated inside the blocks of the event and the task query:
\* a request of another type never reaches the validation
RoleRefused(type, role) == type \in {"both", "event", "task"} /\ ~KnownRole(role)

\* SearchHandler: the response, the store call that failed and the results.
\* Store calls: 1 Find(events), 2 Find(tasks), 3 First(parent event of the
\* first task)
SearchOutcome(caller, req, fault) ==
  LET type == IF req.Type = "" THEN "both" ELSE req.Type
      bounds == SearchBounds(req)
      keyword == TrimSpace(req.Keyword)
      wantsEvents == type \in {"both", "event"}
      wantsTasks == type \in {"both", "task"}
      eventRows == IF wantsEvents
                   THEN EventRows(keyword, bounds, req.Role, caller) ELSE {}
      taskRows == IF wantsTasks
                  THEN TaskRows(keyword, bounds, req.Role, caller) ELSE {}
      failed(resp, hit) == [resp |-> resp, hit |-> hit, results |-> <<>>]
  IN IF caller = NoUser THEN failed("Unauthorized", 0)
     ELSE IF bounds.err THEN failed("ValidationError", 0)
     ELSE IF RoleRefused(type, req.Role) THEN failed("ValidationError", 0)
     ELSE IF wantsEvents /\ fault = 1 THEN failed("InternalError", 1)
     ELSE IF wantsTasks /\ fault = 2 THEN failed("InternalError", 2)
     ELSE [resp |-> "OK",
           hit |-> IF fault = 3 /\ taskRows # {} THEN 3 ELSE 0,
           results |-> EventEntries(eventRows) \o TaskEntries(taskRows, fault = 3)]

SearchResults(caller, req) == SearchOutcome(caller, req, 0).results

SearchAnswer(caller, req, fault) ==
  LET out == SearchOutcome(caller, req, fault) IN
    Answer(out.resp, IF out.resp = "OK" THEN "results" ELSE "error", out.hit,
           events, tasks, attendees)

SearchHandler(caller, req, fault) ==
  /\ Commit(SearchAnswer(caller, req, fault), fault)
  /\ UNCHANGED <<inflight, completed>>

\* ------------------------------------------------------------------ concurrent requests
\* the requests that may be between their lookups and their write at once
MaxInflight == 2

\* the EventAttendee rows inserted while requests are served concurrently
MaxConcurrentRows == 3

\* DB.Create on a table: the row is added; the tables hold no unique index
\* on (event_id, user_id) and no reference to the events table that would
\* refuse it
Create(table, row) == table \cup {row}

\* the least number no request in flight goes by
FreeSlot ==
  CHOOSE n \in 1 .. MaxInflight :
    /\ \A r \in inflight : r.Slot # n
    /\ \A m \in 1 .. (n - 1) : \E r \in inflight : r.Slot = m

\* a request that has done its lookups and is to do its write: the row it
\* is to write as its handler holds it (ID: the key of the row read, 0 when
\* the row is to be created)
Pending(kind, eventID, userID, role, status, id) ==
  [Slot |-> FreeSlot, Kind |-> kind, EventID |-> eventID, UserID |-> userID,
   Role |-> role, Status |-> status, ID |-> id]

\* the tables a lookup step leaves alone
LookupOnly ==
  UNCHANGED <<events, tasks, attendees, nextEventID, nextTaskID, nextAttendeeID,
              completed, now>>

\* InviteUser up to the lookup of the invitee's row: answered there (an
\* error, or "already a participant"), or in flight to its Create
InviteUserLookup(caller, eventID, inviteeID, rawRole) ==
  LET ans == InviteUserAnswer(caller, eventID, inviteeID, rawRole, 0) IN
    /\ Cardinality(inflight) < MaxInflight
    /\ inflight' = IF ans.body = "invited"
                   THEN inflight \cup {Pending("invite", eventID, inviteeID,
                                               LowerRole[rawRole], Empty, 0)}
                   ELSE inflight
    /\ LookupOnly

\* the Create of an InviteUser in flight, and its response
InviteUserCreate(req) ==
  /\ req \in inflight
  /\ req.Kind = "invite"
  /\ nextAttendeeID <= MaxConcurrentRows
  /\ attendees' = Create(attendees,
                         [ID |-> nextAttendeeID, EventID |-> req.EventID,
                          UserID |-> req.UserID, Role |-> req.Role, Status |-> Empty])
  /\ nextAttendeeID' = nextAttendeeID + 1
  /\ inflight' = inflight \ {req}
  /\ UNCHANGED <<events, tasks, nextEventID, nextTaskID, completed, now>>

\* SetAttendance up to the lookup of the caller's row: answered there (an
\* error), or in flight to its Create (no row found) or its Save (the row
\* found, with the new status)
SetAttendanceLookup(caller, eventID, rawStatus) ==
  LET ans == SetAttendanceAnswer(caller, eventID, rawStatus, 0)
      rows == AttendeesOf(eventID, caller) IN
    /\ Cardinality(inflight) < MaxInflight
    /\ inflight' =
         IF ans.resp # "OK" THEN inflight
         ELSE IF rows = {}
         THEN inflight \cup {Pending("create", eventID, caller, RoleAttendee,
                                     Normalized[rawStatus], 0)}
         ELSE inflight \cup {Pending("save", eventID, caller, FirstRow(rows).Role,
                                     Normalized[rawStatus], FirstRow(rows).ID)}
    /\ LookupOnly

\* the Create or Save of a SetAttendance in flight, and its response
SetAttendanceWrite(req) ==
  /\ req \in inflight
  /\ req.Kind \in {"create", "save"}
  /\ IF req.Kind = "create"
     THEN /\ nextAttendeeID <= MaxConcurrentRows
          /\ attendees' = Create(attendees,
                                 [ID |-> nextAttendeeID, EventID |-> req.EventID,
                                  UserID |-> req.UserID, Role |-> req.Role,
                                  Status |-> req.Status])
          /\ nextAttendeeID' = nextAttendeeID + 1
     ELSE /\ attendees' = Save([ID |-> req.ID, EventID |-> req.EventID,
                                UserID |-> req.UserID, Role |-> req.Role,
                                Status |-> req.Status])
          /\ UNCHANGED nextAttendeeID
  /\ inflight' = inflight \ {req}
  /\ UNCHANGED <<events, tasks, nextEventID, nextTaskID, completed, now>>

\* the status set concurrently
ConcurrentStatus == <<"n","o","t"," ","g","o","i","n","g">>

\* the body of the tasks created concurrently
ConcurrentTaskBody == TaskBody(Chairs, Empty)

\* CreateTask up to its binding of the body: answered there (an error), or
\* in flight to its Create
CreateTaskLookup(caller, eventID) ==
  LET ans == CreateTaskAnswer(caller, eventID, ConcurrentTaskBody, 0) IN
    /\ Cardinality(inflight) < MaxInflight
    /\ inflight' = IF ans.resp = "Created"
                   THEN inflight \cup {Pending("task", eventID, caller, Empty, Empty, 0)}
                   ELSE inflight
    /\ LookupOnly

\* the Create of a CreateTask in flight, and its response
CreateTaskInsert(req) ==
  /\ req \in inflight
  /\ req.Kind = "task"
  /\ nextTaskID <= MaxTasks
  /\ tasks' = Create(tasks, NewTask(req.EventID, ConcurrentTaskBody))
  /\ nextTaskID' = nextTaskID + 1
  /\ inflight' = inflight \ {req}
  /\ UNCHANGED <<events, attendees, nextEventID, nextAttendeeID, completed, now>>

\* ------------------------------------------------------------------ requests
\* requests are handled one at a time, each to its response. The handlers
\* tell users apart by equality only, so the organizer of the n-th event is
\* taken among the first n users
Next ==
  \/ \E c \in {u \in Callers : u <= nextEventID}, b \in EventBodySample, f \in 0 .. 2 :
       CreateEvent(c, b, f)
  \/ \E c \in Callers, e \in EventIDs, f \in 0 .. 4 : DeleteEvent(c, e, f)
  \/ \E c \in Callers, e \in EventIDs, u \in InviteeIDs, r \in RoleInputs, f \in 0 .. 5 :
       InviteUser(c, e, u, r, f)
  \/ \E c \in Callers, e \in EventIDs, s \in StatusSample, f \in 0 .. 3 :
       SetAttendance(c, e, s, f)
  \/ \E c \in Callers, e \in EventIDs, f \in 0 .. 2 : GetEventAttendees(c, e, f)
  \/ \E c \in Callers, e \in EventIDs, b \in TaskBodySample, f \in 0 .. 2 :
       CreateTask(c, e, b, f)

Spec == Init /\ [][Next]_vars

\* requests are served concurrently: between the two store calls of a
\* CreateEvent, whole other requests are served (their store calls answer)
NextInterleaved ==
  \/ \E c \in {u \in Callers : u <= nextEventID}, b \in EventBodySample, f \in 0 .. 1 :
       CreateEventInsert(c, b, f)
  \/ \E req \in inflight, failed \in BOOLEAN : CreateEventAttend(req, failed)
  \/ \E c \in Callers, e \in EventIDs : DeleteEvent(c, e, 0)
  \/ \E c \in Callers, e \in EventIDs, u \in InviteeIDs, r \in RoleInputs :
       InviteUser(c, e, u, r, 0)
  \/ \E c \in Callers, e \in EventIDs, s \in StatusSample :
       SetAttendance(c, e, s, 0)

SpecInterleaved == Init /\ [][NextInterleaved]_vars

\* events are created and attendance is set, with every status input
NextAttendance ==
  \/ \E c \in {u \in Callers : u <= nextEventID}, b \in EventBodySample, f \in 0 .. 2 :
       CreateEvent(c, b, f)
  \/ \E c \in Callers, e \in EventIDs, s \in StatusInputs, f \in 0 .. 3 :
       SetAttendance(c, e, s, f)

SpecAttendance == Init /\ [][NextAttendance]_vars

\* events are created with every body while the clock moves on
NextDates ==
  \/ \E t \in ClockValues : Tick(t)
  \/ \E c \in {u \in Callers : u <= nextEventID}, b \in EventBodies, f \in 0 .. 2 :
       CreateEvent(c, b, f)

SpecDates == Init /\ [][NextDates]_vars

\* requests are served concurrently: between the lookups and the write of
\* an InviteUser, a SetAttendance or a CreateTask other requests do their
\* store calls (no store call fails); a DeleteEvent's transaction is one step
NextConcurrent ==
  \/ \E c \in {u \in Users : u <= nextEventID}, b \in EventBodySample : CreateEvent(c, b, 0)
  \/ \E c \in Users, e \in EventIDs : DeleteEvent(c, e, 0)
  \/ \E c \in Users, e \in EventIDs, u \in Users : InviteUserLookup(c, e, u, RoleAttendee)
  \/ \E req \in inflight : InviteUserCreate(req)
  \/ \E c \in Users, e \in EventIDs : SetAttendanceLookup(c, e, ConcurrentStatus)
  \/ \E req \in inflight : SetAttendanceWrite(req)
  \/ \E c \in Users, e \in EventIDs : CreateTaskLookup(c, e)
  \/ \E req \in inflight : CreateTaskInsert(req)

SpecConcurrent == Init /\ [][NextConcurrent]_vars

\* the events created where they are searched: one of 23:59:59 of day 1 and
\* one of 00:00:00 of day 2
SearchEventBodies ==
  { EventBody(Gala, Empty, DateString("RFC3339", 1, Day - 1)),
    EventBody(Chairs, TeaParty, DateString("2006-01-02", 2, 0)) }

\* the search requests served as requests of their own
SearchRequestSample ==
  { SearchRequest(Empty, NoDate, NoDate, Empty, ""),
    SearchRequest(<<"t","e","a">>, NoDate, DateString("2006-01-02", 1, 0), RoleAttendee, "task"),
    SearchRequest(Empty, BadDate, NoDate, RoleOrganizer, "event"),
    SearchRequest(Empty, NoDate, NoDate, <<"a","d","m","i","n">>, "tasks") }

\* events, tasks and invitations are made and the store is searched
NextSearch ==
  \/ \E c \in {u \in Callers : u <= nextEventID}, b \in SearchEventBodies, f \in {0, 2} :
       CreateEvent(c, b, f)
  \/ \E c \in Callers, e \in EventIDs : CreateTask(c, e, TaskBody(BookTea, Empty), 0)
  \/ \E c \in Callers, e \in EventIDs, u \in Users, r \in ValidRoleInputs :
       InviteUser(c, e, u, r, 0)
  \/ \E c \in Callers, req \in SearchRequestSample, f \in 0 .. 3 :
       SearchHandler(c, req, f)
  \/ \E c \in Callers, f \in 0 .. 2 : GetInvitedEvents(c, f)

SpecSearch == Init /\ [][NextSearch]_vars

\* ------------------------------------------------------------------ claims
\* the role each accepted role input of InviteUser is to store
ExpectedRole(rawRole) == IF rawRole = RoleAttendee THEN RoleAttendee ELSE RoleOrganizer

\* the status each status input is to store (none: the input is to be
\* refused)
ExpectedStatus(raw) ==
  CASE raw \in { <<"g","o","i","n","g">>, <<"G","O","I","N","G">>,
                 <<" "," ","G","o","i","n","g"," "," ">> } -> Going
    [] raw \in { <<"n","o","t"," ","g","o","i","n","g">>,
                 <<"N","O","T"," ","G","O","I","N","G","\n">> } -> NotGoing
    [] raw = <<"m","a","y","b","e">> -> Maybe
    [] OTHER -> Empty

\* the caller owns the event or holds an "organizer" row of it
HoldsOrganizerRole(c, ev) ==
  \/ ev.OrganizerID = c
  \/ \E a \in attendees : a.EventID = ev.ID /\ a.UserID = c /\ a.Role = RoleOrganizer

\* a user other than the owner who holds an "organizer" row of the event
IsDelegate(c, ev) ==
  /\ ev.OrganizerID # c
  /\ \E a \in attendees : a.EventID = ev.ID /\ a.UserID = c /\ a.Role = RoleOrganizer

RowsOf(atts, e, u) == {a \in atts : a.EventID = e /\ a.UserID = u}

StoreUnchanged(ans) ==
  ans.events = events /\ ans.tasks = tasks /\ ans.attendees = attendees

\* C1: whatever complete requests were served one after the other, no
\* (EventID, UserID) pair has more than one EventAttendee row.
C1_OneRowPerPair ==
  \A e \in EventIDs, u \in Users : Cardinality(AttendeesOf(e, u)) <= 1

\* C2: an event whose CreateEvent was answered with its store calls
\* succeeding has, for as long as it exists, an EventAttendee row of its
\* OrganizerID with Role "organizer", also when other requests are served
\* between CreateEvent's insert and its FirstOrCreate.
C2_OrganizerHasOrganizerRow ==
  \A ev \in events :
    ev.ID \in completed => AttendeesWithRole(ev.ID, ev.OrganizerID, RoleOrganizer) # {}

\* C3: InviteUser writes an EventAttendee row only for a caller who is the
\* event's OrganizerID or holds an "organizer" row of the event; every other
\* caller (authenticated, valid role, event found) is answered Forbidden and
\* the store is left as it was.
C3_InviteNeedsOrganizer ==
  \A c \in Callers, e \in EventIDs, u \in InviteeIDs, r \in RoleInputs, f \in 0 .. 5 :
    LET ans == InviteUserAnswer(c, e, u, r, f)
        authorized == \E ev \in events : ev.ID = e /\ HoldsOrganizerRole(c, ev)
        checked == /\ c # NoUser
                   /\ r \in ValidRoleInputs
                   /\ f # 1
                   /\ \E ev \in events : ev.ID = e
    IN /\ (ans.attendees # attendees => authorized)
       /\ (checked /\ ~authorized => ans.resp = "Forbidden" /\ StoreUnchanged(ans))

\* C3 witness: an event with a delegate whose invitation of a third user is
\* written, and a user without any row whose invitation is refused.
C3_Witness ==
  \E ev \in events, c \in Users, u \in Users, d \in Users :
    /\ IsDelegate(c, ev)
    /\ AttendeesOf(ev.ID, u) = {}
    /\ InviteUserAnswer(c, ev.ID, u, RoleAttendee, 0).body = "invited"
    /\ InviteUserAnswer(d, ev.ID, u, RoleAttendee, 0).resp = "Forbidden"

\* C4: for an existing event, an existing invitee and a valid role, an
\* authorized InviteUser adds exactly one row, with the lower-cased role and
\* no Status, when the invitee has no row of the event; when the invitee has
\* one, InviteUser writes nothing, whatever the role and whichever store
\* call fails, and answers OK when none does.
C4_InviteOnce ==
  \A ev \in events, c \in Users, u \in Users, r \in ValidRoleInputs, f \in 0 .. 5 :
    HoldsOrganizerRole(c, ev) =>
      LET ans == InviteUserAnswer(c, ev.ID, u, r, f)
          added == ans.attendees \ attendees
      IN IF RowsOf(attendees, ev.ID, u) = {}
         THEN f = 0 =>
                /\ ans.resp = "OK"
                /\ attendees \subseteq ans.attendees
                /\ Cardinality(added) = 1
                /\ \A a \in added :
                     /\ a.EventID = ev.ID /\ a.UserID = u
                     /\ a.Role = ExpectedRole(r) /\ a.Status = Empty
                /\ ans.events = events /\ ans.tasks = tasks
         ELSE /\ StoreUnchanged(ans)
              /\ f = 0 => ans.resp = "OK"

\* the statement of C4 for the requests whose store calls all answer
C4_InviteOnceStoreAnswers ==
  \A ev \in events, c \in Users, u \in Users, r \in ValidRoleInputs :
    HoldsOrganizerRole(c, ev) =>
      LET ans == InviteUserAnswer(c, ev.ID, u, r, 0)
          added == ans.attendees \ attendees
      IN IF RowsOf(attendees, ev.ID, u) = {}
         THEN /\ ans.resp = "OK"
              /\ attendees \subseteq ans.attendees
              /\ Cardinality(added) = 1
              /\ \A a \in added :
                   /\ a.EventID = ev.ID /\ a.UserID = u
                   /\ a.Role = ExpectedRole(r) /\ a.Status = Empty
              /\ ans.events = events /\ ans.tasks = tasks
         ELSE ans.resp = "OK" /\ StoreUnchanged(ans)

\* a user invited as "Organizer" holds a row with Role "organizer" and no
\* Status, and inviting that user again as attendee is answered "already a
\* participant"
InvitedTwice ==
  \E ev \in events, a \in attendees :
    /\ a.EventID = ev.ID /\ a.UserID # ev.OrganizerID
    /\ a.Role = RoleOrganizer /\ a.Status = Empty
    /\ InviteUserAnswer(ev.OrganizerID, ev.ID, a.UserID, RoleAttendee, 0).body
         = "already a participant"

\* C5: for an existing event and a caller, a SetAttendance with a valid
\* status whose store calls answer leaves exactly one row of (event, caller),
\* with the status of that call; the row keeps its key and Role if it
\* existed and has Role "attendee" if it did not; no other row changes.
C5_AttendanceLatestStatus ==
  \A ev \in events, c \in Users, s \in StatusSample :
    ExpectedStatus(s) # Empty =>
      LET ans == SetAttendanceAnswer(c, ev.ID, s, 0)
          before == RowsOf(attendees, ev.ID, c)
          after == RowsOf(ans.attendees, ev.ID, c)
      IN /\ ans.resp = "OK"
         /\ Cardinality(after) = 1
         /\ \A a \in after :
              /\ a.Status = ExpectedStatus(s)
              /\ before = {} => a.Role = RoleAttendee
              /\ \A b \in before : a.Role = b.Role /\ a.ID = b.ID
         /\ ans.attendees \ after = attendees \ before
         /\ ans.events = events /\ ans.tasks = tasks

\* the statement of C5 for the callers who hold at most one row of the event
C5_AttendanceFromOneRow ==
  \A ev \in events, c \in Users, s \in StatusSample :
    (ExpectedStatus(s) # Empty /\ Cardinality(RowsOf(attendees, ev.ID, c)) <= 1) =>
      LET ans == SetAttendanceAnswer(c, ev.ID, s, 0)
          before == RowsOf(attendees, ev.ID, c)
          after == RowsOf(ans.attendees, ev.ID, c)
      IN /\ ans.resp = "OK"
         /\ Cardinality(after) = 1
         /\ \A a \in after :
              /\ a.Status = ExpectedStatus(s)
              /\ before = {} => a.Role = RoleAttendee
              /\ \A b \in before : a.Role = b.Role /\ a.ID = b.ID
         /\ ans.attendees \ after = attendees \ before
         /\ ans.events = events /\ ans.tasks = tasks

\* an organizer whose own row took a status and kept Role "organizer", and a
\* user who registered with a first status and would now replace it by
\* another
AttendanceReplaced ==
  \E ev \in events, a \in attendees, b \in attendees :
    /\ a.EventID = ev.ID /\ a.UserID = ev.OrganizerID
    /\ a.Role = RoleOrganizer /\ a.Status = NotGoing
    /\ b.EventID = ev.ID /\ b.UserID # ev.OrganizerID
    /\ b.Role = RoleAttendee /\ b.Status = Going
    /\ \E x \in SetAttendanceAnswer(b.UserID, ev.ID, <<"n","o","t"," ","g","o","i","n","g">>, 0).attendees :
         x.ID = b.ID /\ x.Status = NotGoing

\* C6: DeleteEvent by the event's OrganizerID is all or nothing: answered
\* OK, the event, its tasks and its attendee rows are gone and every row of
\* another event is as it was; when one of the three deletes fails it is
\* answered InternalError and the store is as it was before the request.
C6_DeleteAllOrNothing ==
  \A ev \in events, f \in 0 .. 4 :
    LET ans == DeleteEventAnswer(ev.OrganizerID, ev.ID, f) IN
      IF f = 0
      THEN /\ ans.resp = "OK"
           /\ ans.events = events \ {ev}
           /\ ans.tasks = {t \in tasks : t.EventID # ev.ID}
           /\ ans.attendees = {a \in attendees : a.EventID # ev.ID}
      ELSE ans.resp = "InternalError" /\ StoreUnchanged(ans)

\* C6 witness: the first event was deleted with the row its creation had
\* made, and the second event, its organizer's row and its task are there.
C6_Witness ==
  /\ nextEventID = 3 /\ nextAttendeeID = 3 /\ nextTaskID = 2
  /\ 1 \in completed /\ 2 \in completed
  /\ \A ev \in events : ev.ID = 2
  /\ \E a \in attendees : attendees = {a} /\ a.EventID = 2
  /\ \E t \in tasks : tasks = {t} /\ t.EventID = 2

\* C7: DeleteEvent of an event that does not exist is answered NotFound, and
\* DeleteEvent by a caller other than the event's OrganizerID, a holder of an
\* "organizer" row of it included, is answered Forbidden; either way the
\* store is as it was.
C7_DeleteRefused ==
  \A c \in Users, id \in EventIDs, f \in {0, 2, 3, 4} :
    LET ans == DeleteEventAnswer(c, id, f) IN
      /\ (\A ev \in events : ev.ID # id) =>
           ans.resp = "NotFound" /\ StoreUnchanged(ans)
      /\ \A ev \in events :
           (ev.ID = id /\ ev.OrganizerID # c) =>
             ans.resp = "Forbidden" /\ StoreUnchanged(ans)

\* C7 witness: an event with a delegate, whose DeleteEvent is refused, and
\* an id of a deleted event, whose DeleteEvent finds nothing.
C7_Witness ==
  \E ev \in events, c \in Users, id \in EventIDs :
    /\ IsDelegate(c, ev)
    /\ DeleteEventAnswer(c, ev.ID, 0).resp = "Forbidden"
    /\ id < nextEventID /\ EventsByID(id) = {}
    /\ DeleteEventAnswer(c, id, 0).resp = "NotFound"

\* C8: no request changes the Status of an existing row of a user u unless
\* it is a SetAttendance whose caller is u: InviteUser, CreateEvent,
\* CreateTask and GetEventAttendees leave every existing row as it is, a
\* SetAttendance leaves every row of another user as it is, DeleteEvent only
\* removes rows of the deleted event; a row made for a user by InviteUser or
\* CreateEvent has no Status.
C8_StatusOnlyByAttendee ==
  /\ \A c \in Callers, e \in EventIDs, u \in InviteeIDs, r \in RoleInputs, f \in 0 .. 5 :
       LET ans == InviteUserAnswer(c, e, u, r, f) IN
         /\ attendees \subseteq ans.attendees
         /\ \A a \in ans.attendees \ attendees : a.Status = Empty
  /\ \A c \in Callers, b \in EventBodySample, f \in 0 .. 2 :
       LET ans == CreateEventAnswer(c, b, f) IN
         /\ attendees \subseteq ans.attendees
         /\ \A a \in ans.attendees \ attendees : a.Status = Empty
  /\ \A c \in Callers, e \in EventIDs, s \in StatusSample, f \in 0 .. 3 :
       LET ans == SetAttendanceAnswer(c, e, s, f) IN
         /\ \A a \in attendees : a.UserID # c => a \in ans.attendees
         /\ \A a \in ans.attendees \ attendees : a.UserID = c
  /\ \A c \in Callers, e \in EventIDs, f \in 0 .. 4 :
       LET ans == DeleteEventAnswer(c, e, f) IN
         /\ ans.attendees \subseteq attendees
         /\ \A a \in attendees \ ans.attendees : a.EventID = e
  /\ \A c \in Callers, e \in EventIDs, b \in TaskBodySample, f \in 0 .. 2 :
       CreateTaskAnswer(c, e, b, f).attendees = attendees
  /\ \A c \in Callers, e \in EventIDs, f \in 0 .. 2 :
       GetEventAttendeesAnswer(c, e, f).attendees = attendees

\* C8 witness: a user holds a row with a status in an event of another
\* user, next to the organizer's own row, and a SetAttendance of the
\* organizer with another status is answered OK.
C8_Witness ==
  \E ev \in events, a \in attendees, b \in attendees :
    /\ a.EventID = ev.ID /\ a.UserID # ev.OrganizerID /\ a.Status = Going
    /\ b.EventID = ev.ID /\ b.UserID = ev.OrganizerID
    /\ SetAttendanceAnswer(ev.OrganizerID, ev.ID,
                           <<"n","o","t"," ","g","o","i","n","g">>, 0).resp = "OK"

\* C9: CreateTask and GetEventAttendees by a caller other than the event's
\* OrganizerID, a holder of an "organizer" row of it included, are answered
\* Forbidden, and CreateTask then adds no task; a CreateTask that adds a task
\* adds one task, of an event whose OrganizerID is its caller.
C9_StrictOwnership ==
  \A c \in Users, e \in EventIDs :
    /\ \A ev \in events :
         (ev.ID = e /\ ev.OrganizerID # c) =>
           /\ \A b \in TaskBodySample, f \in {0, 2} :
                LET ans == CreateTaskAnswer(c, e, b, f) IN
                  ans.resp = "Forbidden" /\ StoreUnchanged(ans)
           /\ \A f \in {0, 2} : GetEventAttendeesAnswer(c, e, f).resp = "Forbidden"
    /\ \A b \in TaskBodySample, f \in 0 .. 2 :
         LET ans == CreateTaskAnswer(c, e, b, f) IN
           ans.tasks # tasks =>
             /\ tasks \subseteq ans.tasks
             /\ \A t \in ans.tasks \ tasks :
                  /\ t.EventID = e
                  /\ \E ev \in events : ev.ID = e /\ ev.OrganizerID = c

\* C9 witness: an event that has a task and a delegate, whose CreateTask
\* and GetEventAttendees are refused although the delegate may invite.
C9_Witness ==
  \E ev \in events, c \in Users, t \in tasks :
    /\ t.EventID = ev.ID
    /\ IsDelegate(c, ev)
    /\ CreateTaskAnswer(c, ev.ID, TaskBody(Chairs, Empty), 0).resp = "Forbidden"
    /\ GetEventAttendeesAnswer(c, ev.ID, 0).resp = "Forbidden"
    /\ InviteUserAnswer(c, ev.ID, c, RoleAttendee, 0).resp = "OK"

\* C10: SetAttendance refuses a status input with ValidationError, writing
\* nothing, exactly when the input trimmed, lower-cased and title-cased word
\* by word is none of "Going", "Maybe", "Not Going"; "going", "GOING",
\* "  Going  ", "not going" and "maybe" are accepted, and an accepted input
\* is stored as its normalized value.
C10_StatusNormalized ==
  \A c \in Users, e \in EventIDs, s \in StatusInputs, f \in 0 .. 3 :
    LET ans == SetAttendanceAnswer(c, e, s, f)
        want == ExpectedStatus(s)
    IN /\ (ans.resp = "ValidationError") <=> (want = Empty)
       /\ (ans.resp = "ValidationError") <=>
            (Normalize(s) \notin {Going, Maybe, NotGoing})
       /\ ans.resp = "ValidationError" => StoreUnchanged(ans)
       /\ want # Empty => Normalize(s) = want
       /\ \A a \in ans.attendees \ attendees : a.Status = want
       /\ (want # Empty /\ f = 0 /\ EventsByID(e) # {}) =>
            /\ ans.resp = "OK"
            /\ \E a \in ans.attendees :
                 a.EventID = e /\ a.UserID = c /\ a.Status = want

\* C10 witness: "Not Going" and "Maybe" are stored, and a refused input
\* finds rows it could have changed.
C10_Witness ==
  \E a \in attendees, b \in attendees :
    /\ a.Status = NotGoing /\ b.Status = Maybe
    /\ SetAttendanceAnswer(a.UserID, a.EventID,
                           <<"n","o","t","_","g","o","i","n","g">>, 0).resp
         = "ValidationError"

\* the time a date string of one of the two layouts names
ExpectedTime(date) == date.day * Day + date.sec

\* C11: a CreateEvent whose body binds and whose date parses to D is
\* answered ValidationError and stores nothing when D is not after now;
\* when D is after now and the store calls answer it stores one Event with
\* Date D and the caller as OrganizerID; every Event a step stores has a Date
\* after the time of that step.
C11_DateAfterNow ==
  /\ [](\A c \in Users, b \in EventBodies, f \in 0 .. 2 :
          (b.Title # Empty /\ b.Date.layout \in {"RFC3339", "2006-01-02"}) =>
            LET ans == CreateEventAnswer(c, b, f)
                D == ExpectedTime(b.Date)
            IN /\ D <= now => ans.resp = "ValidationError" /\ StoreUnchanged(ans)
               /\ (D > now /\ f = 0) =>
                    /\ ans.resp = "Created"
                    /\ events \subseteq ans.events
                    /\ Cardinality(ans.events \ events) = 1
               /\ \A e \in ans.events \ events : e.Date = D /\ e.OrganizerID = c)
  /\ [][\A e \in events' \ events : e.Date > now]_vars

\* C11 witness: at noon of day 0 an event dated 00:00:00 of day 1 is stored,
\* a date of noon of day 0 is refused and one of 23:59:59 of day 0 is taken.
C11_Witness ==
  /\ now = 12 * Hour
  /\ \E e \in events : e.Date = Day
  /\ CreateEventAnswer(1, EventBody(Gala, Empty, DateString("RFC3339", 0, 12 * Hour)), 0).resp
       = "ValidationError"
  /\ CreateEventAnswer(1, EventBody(Gala, Empty, DateString("RFC3339", 0, Day - 1)), 0).resp
       = "Created"

\* the keywords and date bounds (start, end) sent with the searches of the
\* claims on roles and order
KeywordSample == {Empty, <<"t","e","a">>}

BoundsSample ==
  { <<NoDate, NoDate>>,
    <<DateString("2006-01-02", 2, 0), NoDate>>,
    <<NoDate, DateString("2006-01-02", 1, 0)>> }

\* the events of the entries of a search result
EventsIn(results) == {results[i].event : i \in DOMAIN results}

HasAttendeeRow(c, e) ==
  \E a \in attendees : a.EventID = e.ID /\ a.UserID = c /\ a.Role = RoleAttendee

\* C12: every entry of a Search with role "attendee", event or task, is of
\* an event for which the caller holds a row with Role "attendee"; an event
\* for which the caller holds rows with Role "organizer" only is in no such
\* result, and GetInvitedEvents lists it for the same caller.
C12_AttendeeRoleOnly ==
  \A c \in Users :
    /\ \A k \in KeywordSample, b \in BoundsSample, ty \in TypeInputs :
         \A e \in EventsIn(SearchResults(c, SearchRequest(k, b[1], b[2], RoleAttendee, ty))) :
           e \in events /\ HasAttendeeRow(c, e)
    /\ \A e \in events :
         (AttendeesOf(e.ID, c) # {} /\ ~HasAttendeeRow(c, e)) =>
           \E i \in DOMAIN GetInvitedEventsResults(c) : GetInvitedEventsResults(c)[i] = e

\* C12 witness: a user with an "organizer" row of one event and an
\* "attendee" row of another, each with a task: the search lists the second
\* event and its task only, GetInvitedEvents both events.
C12_Witness ==
  \E c \in Users, e1 \in events, e2 \in events :
    LET found == SearchResults(c, SearchRequest(Empty, NoDate, NoDate, RoleAttendee, "both")) IN
      /\ AttendeesWithRole(e1.ID, c, RoleOrganizer) # {} /\ ~HasAttendeeRow(c, e1)
      /\ HasAttendeeRow(c, e2)
      /\ \A e \in {e1, e2} : \E t \in tasks : t.EventID = e.ID
      /\ Len(found) = 2
      /\ found[1] = [type |-> "event", event |-> e2]
      /\ found[2].type = "task" /\ found[2].event = e2
      /\ Len(GetInvitedEventsResults(c)) = 2

\* the date strings a handler accepts
AcceptedDates == {d \in DateInputs : d.layout \in {"RFC3339", "2006-01-02"}}

\* 23:59:59 of the day a date string names
LastSecondOfDay(date) == date.day * Day + (Day - 1)

\* C13: for every accepted end_date, of either layout and any time of day,
\* a Search without other filters lists an event (and a task of an event)
\* dated at or before 23:59:59 of the day end_date names, and not one dated
\* 00:00:00 of the following day.
C13_EndOfDayBound ==
  \A c \in Users, ed \in AcceptedDates :
    LET found == SearchResults(c, SearchRequest(Empty, NoDate, ed, Empty, "both"))
        listed(e) == \E i \in DOMAIN found : found[i].type = "event" /\ found[i].event = e
        listedTask(t) == \E i \in DOMAIN found : found[i].type = "task" /\ found[i].task = t
    IN \A e \in events :
         /\ e.Date <= LastSecondOfDay(ed) =>
              listed(e) /\ \A t \in tasks : t.EventID = e.ID => listedTask(t)
         /\ e.Date = LastSecondOfDay(ed) + 1 =>
              ~listed(e) /\ \A t \in tasks : t.EventID = e.ID => ~listedTask(t)

\* the statement of C13 for the end dates that name 00:00:00 of their day
C13_EndOfDayBoundFromMidnight ==
  \A c \in Users, ed \in {d \in AcceptedDates : d.sec = 0} :
    LET found == SearchResults(c, SearchRequest(Empty, NoDate, ed, Empty, "both"))
        listed(e) == \E i \in DOMAIN found : found[i].type = "event" /\ found[i].event = e
    IN \A e \in events :
         /\ e.Date <= LastSecondOfDay(ed) => listed(e)
         /\ e.Date = LastSecondOfDay(ed) + 1 => ~listed(e)

\* C14: a Search by an authenticated caller whose role is none of "",
\* "organizer", "attendee" is answered ValidationError, whatever the type,
\* the keyword, the dates and the store call that fails.
C14_UnknownRoleRefused ==
  \A c \in Users, r \in SearchRoleInputs \ {Empty, RoleOrganizer, RoleAttendee},
     ty \in TypeInputs, k \in KeywordSample, sd \in {NoDate, BadDate}, f \in 0 .. 3 :
    SearchOutcome(c, SearchRequest(k, sd, NoDate, r, ty), f).resp = "ValidationError"

\* the statement of C14 for the types the handler knows
C14_UnknownRoleRefusedOfKnownType ==
  \A c \in Users, r \in SearchRoleInputs \ {Empty, RoleOrganizer, RoleAttendee},
     ty \in {"", "event", "task", "both"}, k \in KeywordSample, sd \in {NoDate, BadDate},
     f \in 0 .. 3 :
    SearchOutcome(c, SearchRequest(k, sd, NoDate, r, ty), f).resp = "ValidationError"

\* C15: the result of a Search of type "both" is the event entries followed
\* by the task entries; the event entries are in ascending order of Date,
\* the task entries in ascending order of the Date of their events, and each
\* task entry carries the Event its task belongs to.
C15_EventsThenTasks ==
  \A c \in Users, r \in {Empty, RoleAttendee}, k \in KeywordSample,
     b \in {<<NoDate, NoDate>>, <<NoDate, DateString("2006-01-02", 1, 0)>>}, f \in {0, 3} :
    LET found == SearchOutcome(c, SearchRequest(k, b[1], b[2], r, "both"), f).results IN
      /\ \A i \in DOMAIN found, j \in DOMAIN found :
           i < j =>
             /\ ~(found[i].type = "task" /\ found[j].type = "event")
             /\ found[i].type = found[j].type => found[i].event.Date <= found[j].event.Date
      /\ \A i \in DOMAIN found :
           /\ found[i].type \in {"event", "task"}
           /\ found[i].event \in events
           /\ found[i].type = "task" =>
                found[i].task \in tasks /\ found[i].event.ID = found[i].task.EventID

\* C15 witness: the first event is dated after the second and each has a
\* task: the result is the second event, the first event, the task of the
\* second event, the task of the first.
C15_Witness ==
  \E e1 \in events, e2 \in events, t1 \in tasks, t2 \in tasks :
    /\ e1.ID < e2.ID /\ e1.Date > e2.Date
    /\ t1.ID < t2.ID /\ t1.EventID = e1.ID /\ t2.EventID = e2.ID
    /\ SearchResults(1, SearchRequest(Empty, NoDate, NoDate, Empty, "both"))
         = << [type |-> "event", event |-> e2], [type |-> "event", event |-> e1],
              [type |-> "task", task |-> t2, event |-> e2],
              [type |-> "task", task |-> t1, event |-> e1] >>

\* the texts a keyword is to be found in
ExpectedToMatch(keyword, text) ==
  CASE keyword = Empty -> TRUE
    [] keyword = <<" ","g","A","L","a"," ">> -> text = Gala
    [] keyword = <<"t","e","a">> ->
         text \in {TeaParty, <<"b","o","o","k"," ","T","E","A">>}
    [] OTHER -> FALSE

\* the event e passes the keyword and the date bounds b = (start, end)
EventExpected(e, keyword, b) ==
  /\ ExpectedToMatch(keyword, e.Title) \/ ExpectedToMatch(keyword, e.Description)
  /\ b[1] = NoDate \/ e.Date >= ExpectedTime(b[1])
  /\ b[2] = NoDate \/ e.Date <= LastSecondOfDay(b[2])

\* searches without a role: each keyword within each pair of bounds for
\* events and tasks together, and one search of each other type
RoleFreeSample ==
  {SearchRequest(k, b[1], b[2], Empty, "both") : k \in KeywordInputs, b \in BoundsSample}
    \cup {SearchRequest(Empty, NoDate, NoDate, Empty, ty) : ty \in {"", "event", "task"}}

\* C20: without a role, a Search answers every authenticated caller alike:
\* the same response and the same sequence for the same keyword, date bounds
\* and type, whatever the store; for a type that asks for them it lists
\* every event that passes the keyword and date filters, and every task
\* that passes them itself or by its event.
C20_SearchSameForAll ==
  \A req \in RoleFreeSample :
    LET k == req.Keyword
        b == <<req.StartDate, req.EndDate>>
        ty == req.Type
        found == SearchResults(1, req)
    IN /\ \A c \in Users \ {1} : SearchOutcome(c, req, 0).results = found
       /\ ty \in {"", "both", "event"} =>
            \A e \in events :
              EventExpected(e, k, b) <=>
                \E i \in DOMAIN found : found[i] = [type |-> "event", event |-> e]
       /\ ty \in {"", "both", "task"} =>
            \A t \in tasks, e \in events :
              t.EventID = e.ID =>
                ((/\ EventExpected(e, Empty, b)
                  /\ \/ ExpectedToMatch(k, t.Title) \/ ExpectedToMatch(k, t.Description)
                     \/ ExpectedToMatch(k, e.Title) \/ ExpectedToMatch(k, e.Description))
                 <=> \E i \in DOMAIN found :
                       found[i] = [type |-> "task", task |-> t, event |-> e])

\* C20 witness: a user who neither owns nor holds a row of an event with a
\* task is given that event and its task, as its owner is.
C20_Witness ==
  \E c \in Users, e \in events, t \in tasks :
    LET found == SearchResults(c, SearchRequest(<<"t","e","a">>, NoDate, NoDate, Empty, "")) IN
      /\ e.OrganizerID # c /\ AttendeesOf(e.ID, c) = {}
      /\ t.EventID = e.ID
      /\ \E i \in DOMAIN found : found[i] = [type |-> "event", event |-> e]
      /\ \E i \in DOMAIN found : found[i] = [type |-> "task", task |-> t, event |-> e]
      /\ found = SearchResults(e.OrganizerID,
                               SearchRequest(<<"t","e","a">>, NoDate, NoDate, Empty, ""))

\* the values the Role and Status columns are to hold
RoleValues == {RoleOrganizer, RoleAttendee}

StatusValues == {Empty, Going, Maybe, NotGoing}

\* C18: every EventAttendee row has Role "organizer" or "attendee" and
\* Status "", "Going", "Maybe" or "Not Going", in the store and in what any
\* InviteUser or SetAttendance request, whatever its role or status string,
\* would leave.
C18_RoleAndStatusValues ==
  /\ \A a \in attendees : a.Role \in RoleValues /\ a.Status \in StatusValues
  /\ \A c \in Callers, e \in EventIDs, u \in InviteeIDs, r \in RoleInputs, f \in {0, 4} :
       \A a \in InviteUserAnswer(c, e, u, r, f).attendees :
         a.Role \in RoleValues /\ a.Status \in StatusValues
  /\ \A c \in Callers, e \in EventIDs, st \in StatusInputs :
       \A a \in SetAttendanceAnswer(c, e, st, 0).attendees :
         a.Role \in RoleValues /\ a.Status \in StatusValues

\* C18 witness: a user invited as "Organizer" has set a status: the row
\* holds "organizer" and "Not Going"; requests with role "admin" and status
\* "notgoing" on that event are refused.
C18_Witness ==
  \E ev \in events, a \in attendees :
    /\ a.EventID = ev.ID /\ a.UserID # ev.OrganizerID
    /\ a.Role = RoleOrganizer /\ a.Status = NotGoing
    /\ InviteUserAnswer(ev.OrganizerID, ev.ID, NUsers, <<"a","d","m","i","n">>, 0).resp
         = "ValidationError"
    /\ SetAttendanceAnswer(a.UserID, ev.ID, <<"n","o","t","g","o","i","n","g">>, 0).resp
         = "ValidationError"

\* the responses that refuse a request
Refusals == {"Unauthorized", "ValidationError", "NotFound", "Forbidden"}

\* the bodies of CreateEvent sent where they are one input among others: a
\* good one, one without title, one of a date that does not parse and one
\* of a date that is not after now
EventBodyRefusalSample ==
  EventBodySample \cup
    { EventBody(Gala, Empty, BadDate),
      EventBody(Gala, Empty, DateString("2006-01-02", 0, 0)) }

Refused(ans) == ans.resp \in Refusals => StoreUnchanged(ans)

\* C19: a request of CreateEvent, DeleteEvent, InviteUser, SetAttendance,
\* GetEventAttendees, CreateTask or Search that is answered Unauthorized,
\* ValidationError, NotFound or Forbidden leaves the events, tasks and
\* attendees as they were (the users are written by no handler).
C19_RefusalsWriteNothing ==
  /\ \A c \in Callers, b \in EventBodyRefusalSample, f \in 0 .. 2 :
       Refused(CreateEventAnswer(c, b, f))
  /\ \A c \in Callers, e \in EventIDs, f \in 0 .. 4 : Refused(DeleteEventAnswer(c, e, f))
  /\ \A c \in Callers, e \in EventIDs, u \in {NUsers, NUsers + 1}, r \in RoleInputs,
        f \in 0 .. 5 :
       Refused(InviteUserAnswer(c, e, u, r, f))
  /\ \A c \in Callers, e \in EventIDs, st \in StatusSample, f \in 0 .. 3 :
       Refused(SetAttendanceAnswer(c, e, st, f))
  /\ \A c \in Callers, e \in EventIDs, f \in 0 .. 2 :
       Refused(GetEventAttendeesAnswer(c, e, f))
  /\ \A c \in Callers, e \in EventIDs, b \in TaskBodySample, f \in 0 .. 2 :
       Refused(CreateTaskAnswer(c, e, b, f))
  /\ \A c \in Callers, req \in SearchRequestSample :
       Refused(SearchAnswer(c, req, 0))

\* C19 witness: an event with a task and a second row; a user who does not
\* own it is refused its deletion, its attendees and a task on it
\* (Forbidden), a status that is none (ValidationError), an invitation to
\* an event that does not exist (NotFound), and no user is refused a
\* search (Unauthorized).
C19_Witness ==
  \E ev \in events, c \in Users :
    /\ c # ev.OrganizerID
    /\ \E t \in tasks : t.EventID = ev.ID
    /\ AttendeesOf(ev.ID, c) # {}
    /\ EventsByID(MaxEvents) = {}
    /\ DeleteEventAnswer(c, ev.ID, 0).resp = "Forbidden"
    /\ GetEventAttendeesAnswer(c, ev.ID, 0).resp = "Forbidden"
    /\ CreateTaskAnswer(c, ev.ID, TaskBody(Chairs, Empty), 0).resp = "Forbidden"
    /\ SetAttendanceAnswer(c, ev.ID, <<"n","o","t","g","o","i","n","g">>, 0).resp
         = "ValidationError"
    /\ InviteUserAnswer(c, MaxEvents, NUsers, RoleAttendee, 0).resp = "NotFound"
    /\ SearchAnswer(NoUser, SearchRequest(Empty, NoDate, NoDate, Empty, ""), 0).resp
         = "Unauthorized"

\* C16: while the store calls of InviteUser and SetAttendance requests
\* interleave (two InviteUser of one invitee, an InviteUser and the
\* invitee's SetAttendance, two SetAttendance of one caller, each looking up
\* before either inserts), no (EventID, UserID) pair has two rows.
C16_OneRowPerPairConcurrently ==
  \A e \in EventIDs, u \in Users : Cardinality(RowsOf(attendees, e, u)) <= 1

\* C17: every task and every EventAttendee row is of an event in the store,
\* also when a DeleteEvent commits between the event lookup and the insert
\* of an InviteUser, SetAttendance or CreateTask.
C17_NoOrphanedRows ==
  /\ \A t \in tasks : \E ev \in events : ev.ID = t.EventID
  /\ \A a \in attendees : \E ev \in events : ev.ID = a.EventID

====
